---------------------------- MODULE Spec2Model ----------------------------
(***************************************************************************)
(* Model of busytag.Device (src/busytag.py): the AT-style command/response *)
(* engine a host runs over a serial connection to a Busy Tag device.       *)
(*                                                                         *)
(* A byte is a one-character string; a bytes object (and a decoded str) is *)
(* a sequence of bytes.  The serial connection is two byte queues: inq     *)
(* (device to host, read by conn.readline / conn.read) and outq (host to   *)
(* device, written by conn.write).  Every Device method is a call action   *)
(* followed by one action per blocking read it performs.                   *)
(***************************************************************************)
EXTENDS Integers, Sequences, FiniteSets, TLC

VARIABLES
    pc,         \* position of the host inside the Device method being run
    op,         \* name of the Device method being run ("" when idle)
    args,       \* its arguments
    ret,        \* its return value, once it has returned
    err,        \* the exception it raised, once it has raised
    result,     \* local `result` of list_pictures / list_files
    resps,      \* the values __read_response has returned during this call
    read_size,  \* local `read_size` of read_file
    inq,        \* bytes sent by the device and not yet read by the host
    outq,       \* bytes written by the host and not yet taken by the device
    trace,      \* the calls made on self.conn during this call, in order
    rx,         \* every byte the connection has offered to this call
    nframes,    \* number of frames the device has sent on this session
    debug,      \* Python's __debug__: FALSE when run with -O (asserts removed)
    files,      \* storing device: the files it holds
    dstate,     \* storing device: what it is waiting for
    uploaded,   \* round trip: data of the last upload_file that returned normally
    stale,      \* bytes the previous calls left unread when this call began
    failed,     \* the previous call ended with a protocol error
    identity,   \* the private fields set by Device.__init__
    timed_out,  \* the connection has failed: its reads return what they have
    error_line  \* the argument of build_exception, when it is run alone

vars == <<pc, op, args, ret, err, result, resps, read_size, inq, outq, trace,
          rx, nframes, debug, files, dstate, uploaded, stale, failed,
          identity, timed_out, error_line>>

----------------------------------------------------------------------------
(* Bounds of the model.                                                    *)

\* frames an arbitrary device may send during one session
MaxFrames == 4

\* empty lines one call reads from a failed connection before the model
\* stops following it
MaxEmptyReads == 2

----------------------------------------------------------------------------
(* Bytes.                                                                  *)

CR == "\r"
LF == "\n"
CRLF == <<CR, LF>>
\* a byte >= 0x80, which bytes.decode() rejects
NonAscii == "0xFF"

\* the bytes str.strip() / bytes.strip() remove
Whitespace == {" ", "\t", "\n", "\r", "\f"}

DigitChars == <<"0", "1", "2", "3", "4", "5", "6", "7", "8", "9">>
DigitSet == {DigitChars[i] : i \in 1..10}
DigitVal(c) == (CHOOSE i \in 1..10 : DigitChars[i] = c) - 1

----------------------------------------------------------------------------
(* The Python built-ins the module uses, computed as Python computes them. *)

startswith(s, p) == Len(s) >= Len(p) /\ SubSeq(s, 1, Len(p)) = p

contains(s, c) == \E i \in 1..Len(s) : s[i] = c

RECURSIVE lstrip(_)
lstrip(s) == IF s # <<>> /\ Head(s) \in Whitespace THEN lstrip(Tail(s)) ELSE s

RECURSIVE rstrip(_)
rstrip(s) == IF s # <<>> /\ s[Len(s)] \in Whitespace
             THEN rstrip(SubSeq(s, 1, Len(s) - 1)) ELSE s

strip(s) == rstrip(lstrip(s))

removeprefix(s, p) == IF startswith(s, p) THEN SubSeq(s, Len(p) + 1, Len(s)) ELSE s

\* index of the first occurrence of byte c in s (s contains c)
find(s, c) == CHOOSE i \in 1..Len(s) : s[i] = c /\ \A j \in 1..(i - 1) : s[j] # c

\* s.split(sep), sep a single byte (t is s, evaluated once)
RECURSIVE split(_, _)
split(s, sep) ==
    CHOOSE parts \in {IF contains(t, sep)
                      THEN <<SubSeq(t, 1, find(t, sep) - 1)>>
                           \o split(SubSeq(t, find(t, sep) + 1, Len(t)), sep)
                      ELSE <<t>> : t \in {s}} : TRUE

\* s.split(sep, 1), for s that contains sep
split1(s, sep) ==
    <<SubSeq(s, 1, find(s, sep) - 1), SubSeq(s, find(s, sep) + 1, Len(s))>>

\* bytes.decode(): succeeds on ASCII text only
decodable(b) == \A i \in 1..Len(b) : b[i] # NonAscii

RECURSIVE DecValue(_)
DecValue(s) == IF s = <<>> THEN 0
               ELSE 10 * DecValue(SubSeq(s, 1, Len(s) - 1)) + DigitVal(s[Len(s)])

\* int(s): surrounding whitespace, an optional sign, at least one digit
int(s) ==
    LET t == strip(s)
        signed == t # <<>> /\ t[1] \in {"+", "-"}
        body == IF signed THEN Tail(t) ELSE t
    IN  IF body # <<>> /\ \A i \in 1..Len(body) : body[i] \in DigitSet
        THEN [ok |-> TRUE,
              val |-> IF signed /\ t[1] = "-" THEN 0 - DecValue(body)
                      ELSE DecValue(body)]
        ELSE [ok |-> FALSE, val |-> 0]

\* '%d' % n
RECURSIVE FormatNat(_)
FormatNat(n) == IF n < 10 THEN <<DigitChars[n + 1]>>
                ELSE FormatNat(n \div 10) \o <<DigitChars[(n % 10) + 1]>>

format_d(n) == IF n < 0 THEN <<"-">> \o FormatNat(0 - n) ELSE FormatNat(n)

\* s[i:] and s[i:j] with Python's 0-based, clamped, possibly negative bounds
SliceIndex(n, i) == IF i < 0 THEN (IF n + i < 0 THEN 0 ELSE n + i)
                    ELSE (IF i > n THEN n ELSE i)

slice(s, i, j) == SubSeq(s, SliceIndex(Len(s), i) + 1, SliceIndex(Len(s), j))

slice_from(s, i) == SubSeq(s, SliceIndex(Len(s), i) + 1, Len(s))

----------------------------------------------------------------------------
(* Values: exceptions, return values, FileEntry, WifiConfig.               *)

Raised(type, msg, text) == [type |-> type, msg |-> msg, text |-> text]
NoError == Raised("None", "", <<>>)

Value(kind, val) == [kind |-> kind, val |-> val]
NoValue == Value("unset", <<>>)
None == Value("None", <<>>)

FileEntry(name, size, type) == [name |-> name, size |-> size, type |-> type]

WifiConfig(ssid, password) == [ssid |-> ssid, password |-> password]

\* the private fields of Device that __init__ sets
Identity(capacity, device_id, firmware_version, manufacturer, name) ==
    [capacity |-> capacity, device_id |-> device_id,
     firmware_version |-> firmware_version, manufacturer |-> manufacturer,
     name |-> name]
NoIdentity == Identity(0, <<>>, <<>>, <<>>, <<>>)

----------------------------------------------------------------------------
(* build_exception.                                                        *)

\* the messages of the exceptions the module raises for what the device sent
ProtocolErrorMessages ==
    {"Unknown error", "Invalid command", "Invalid argument", "File not found",
     "Invalid size", "Unexpected error response",
     "Malformed response to command AT+GF", "Malformed response to command AT+WC"}

ProtocolError(e) == e.msg \in ProtocolErrorMessages

ERROR_COLON == <<"E", "R", "R", "O", "R", ":">>

UnexpectedError(error_response) ==
    IF decodable(error_response)
    THEN Raised("Exception", "Unexpected error response", error_response)
    ELSE Raised("UnicodeDecodeError", "", <<>>)

\* faulty variant: the line break is left on the error code
build_exception_not_stripped(error_response) ==
    IF ~startswith(error_response, ERROR_COLON)
    THEN UnexpectedError(error_response)
    ELSE IF ~decodable(error_response)
    THEN Raised("UnicodeDecodeError", "", <<>>)
    ELSE LET parts == split(error_response, ":")
         IN  IF Len(parts) # 2 THEN UnexpectedError(error_response)
             ELSE CASE parts[2] = <<"0">> -> Raised("Exception", "Unknown error", <<>>)
                    [] parts[2] = <<"1">> -> Raised("ValueError", "Invalid command", <<>>)
                    [] parts[2] = <<"2">> -> Raised("ValueError", "Invalid argument", <<>>)
                    [] parts[2] = <<"3">> -> Raised("FileNotFoundError", "File not found", <<>>)
                    [] parts[2] = <<"4">> -> Raised("ValueError", "Invalid size", <<>>)
                    [] OTHER -> UnexpectedError(error_response)

\* line 30-57; a byte string that is not text makes .decode() raise
build_exception(error_response) ==
    IF ~startswith(error_response, ERROR_COLON)
    THEN UnexpectedError(error_response)
    ELSE IF ~decodable(error_response)
    THEN Raised("UnicodeDecodeError", "", <<>>)
    ELSE LET parts == split(strip(error_response), ":")
         IN  IF Len(parts) # 2 THEN UnexpectedError(error_response)
             ELSE CASE parts[2] = <<"-", "1">> -> UnexpectedError(error_response)
                    [] parts[2] = <<"0">> -> Raised("Exception", "Unknown error", <<>>)
                    [] parts[2] = <<"1">> -> Raised("ValueError", "Invalid command", <<>>)
                    [] parts[2] = <<"2">> -> Raised("ValueError", "Invalid argument", <<>>)
                    [] parts[2] = <<"3">> -> Raised("FileNotFoundError", "File not found", <<>>)
                    [] parts[2] = <<"4">> -> Raised("ValueError", "Invalid size", <<>>)
                    [] OTHER -> UnexpectedError(error_response)

----------------------------------------------------------------------------
(* The byte strings of the wire protocol, as the Device methods spell them. *)

EVN_PREFIX == <<"+", "e", "v", "n">>
ERROR_PREFIX == <<"E", "R", "R", "O", "R">>
OK_PREFIX == <<"O", "K">>
AT_PLUS == <<"A", "T", "+">>
AT_GPL == <<"A", "T", "+", "G", "P", "L">>
AT_GFL == <<"A", "T", "+", "G", "F", "L">>
AT_GF == <<"A", "T", "+", "G", "F", "=">>
AT_UF == <<"A", "T", "+", "U", "F", "=">>
AT_DF == <<"A", "T", "+", "D", "F", "=">>
AT_SP == <<"A", "T", "+", "S", "P", "=">>
AT_DB == <<"A", "T", "+", "D", "B", "=">>
AT_WC == <<"A", "T", "+", "W", "C", "=">>
AT_FRWCF == <<"A", "T", "+", "F", "R", "W", "C", "F">>
PL_PREFIX == <<"+", "P", "L", ":">>
FL_PREFIX == <<"+", "F", "L", ":">>
GF_PREFIX == <<"+", "G", "F", ":">>
DF_PREFIX == <<"+", "D", "F", ":">>
ATTR_SP == <<"S", "P">>
ATTR_FSS == <<"F", "S", "S">>
ATTR_DB == <<"D", "B">>
ATTR_WC == <<"W", "C">>
TERMINATOR == <<CR, LF, "O", "K", CR, LF>>

\* __exec_query / __exec_gquery: the command sent and the prefix awaited
QueryCommand(attribute) == AT_PLUS \o attribute \o <<"?">>
GQueryCommand(attribute) == AT_PLUS \o <<"G">> \o attribute
ResponsePrefix(attribute) == <<"+">> \o attribute \o <<":">>

----------------------------------------------------------------------------
(* The serial connection (self.conn) and the two private readers.          *)

ConnCall(call, size, data) == [call |-> call, size |-> size, data |-> data]

\* a line feed has arrived
HasLine(q) == contains(q, LF)

\* conn.readline(): the bytes up to and including the first line feed, or,
\* when the read ends without one (time-out, closed stream), the bytes received
conn_readline(q) == IF HasLine(q) THEN SubSeq(q, 1, find(q, LF)) ELSE q

\* size bytes have arrived
HasBytes(q, size) == Len(q) >= size

\* conn.read(size): size bytes, or, when the read ends before (time-out,
\* closed stream), the bytes received
conn_read(q, size) == SubSeq(q, 1, IF HasBytes(q, size) THEN size ELSE Len(q))

\* what is left in the queue after the first n bytes were read
After(q, n) == SubSeq(q, n + 1, Len(q))

\* the reads of this call that a failed connection ended with nothing
EmptyReads ==
    Cardinality({i \in 1..Len(trace) : trace[i].call = "readline" /\ trace[i].data = <<>>})

\* conn.readline() returns: a line is there, or the connection has failed
LineReady ==
    HasLine(inq) \/ (timed_out /\ (inq # <<>> \/ EmptyReads < MaxEmptyReads))

\* conn.read(size) returns: the bytes are there, or the connection has failed
BytesReady(size) == HasBytes(inq, size) \/ timed_out

\* faulty variant: the ERROR check of line 235 is missing
__readline_unchecked(q) ==
    [raw |-> conn_readline(q), raised |-> FALSE,
     exc |-> NoError, line |-> strip(conn_readline(q))]

\* Device.__readline on queue q: the line read (raw), and either the
\* exception raised or the stripped line returned
__readline(q) ==
    IF startswith(conn_readline(q), ERROR_PREFIX)
    THEN [raw |-> conn_readline(q), raised |-> TRUE,
          exc |-> build_exception(conn_readline(q)), line |-> <<>>]
    ELSE [raw |-> conn_readline(q), raised |-> FALSE,
          exc |-> NoError, line |-> strip(conn_readline(q))]

\* faulty variant: the prefix check of line 229 is missing
__read_response_any_line(prefix, q) ==
    [raw |-> __readline(q).raw,
     raised |-> __readline(q).raised,
     exc |-> __readline(q).exc,
     line |-> __readline(q).line,
     returned |-> ~__readline(q).raised]

\* One turn of the loop of Device.__read_response(prefix) on queue q:
\* __readline raises, or the line is returned, or the loop goes round again
__read_response(prefix, q) ==
    [raw |-> __readline(q).raw,
     raised |-> __readline(q).raised,
     exc |-> __readline(q).exc,
     line |-> __readline(q).line,
     returned |-> ~__readline(q).raised /\ startswith(__readline(q).line, prefix)]

----------------------------------------------------------------------------
(* Arguments of the Device methods.                                        *)

Args(filename, data, brightness, wifi_config) ==
    [filename |-> filename, data |-> data, brightness |-> brightness,
     wifi_config |-> wifi_config]
NoArgs == Args(<<>>, <<>>, 0, WifiConfig(<<>>, <<>>))

A_PNG == <<"a", ".", "p", "n", "g">>
FileNames == {A_PNG}

\* file contents: empty, one byte, with CR and LF inside and at the end,
\* equal to the terminator, and one whose length takes two digits
Payloads ==
    { <<>>, <<"x">>, <<CR, LF>>, <<CR, LF, "x">>, TERMINATOR,
      <<"x", "y", CR, LF, "O", "K", CR, LF, "z", LF, CR>> }

MinBrightness == 1
MaxBrightness == 100
BrightnessInputs == {-1, 0, 1, 50, 100, 101, 102}

WifiConfigs == {WifiConfig(<<"n">>, <<"p">>)}

----------------------------------------------------------------------------
(* Steps shared by the Device methods.                                     *)

\* the method raises exception e
Raise(e) == pc' = "done" /\ err' = e /\ ret' = NoValue

\* the method returns value v
Return(v) == pc' = "done" /\ ret' = v /\ err' = NoError

\* the method goes on at position p
Goto(p) == pc' = p /\ UNCHANGED <<ret, err>>

\* a method is entered on an idle session (the model follows no call made
\* after the connection has failed)
Enter(name, a) == pc = "idle" /\ ~timed_out /\ op' = name /\ args' = a

\* faulty variant: the line break of line 220 is missing
__send_command_no_crlf(command) ==
    /\ outq' = outq \o command
    /\ trace' = Append(trace, ConnCall("write", Len(command), command))

\* Device.__send_command
__send_command(command) ==
    /\ outq' = outq \o command \o CRLF
    /\ trace' = Append(trace, ConnCall("write", Len(command) + 2, command \o CRLF))

\* the effect on the connection of reading the line r.raw
TakeLine(r) ==
    /\ inq' = After(inq, Len(r.raw))
    /\ trace' = Append(trace, ConnCall("readline", Len(r.raw), r.raw))

\* the effect on the connection of conn.read(size)
TakeBytes(size) ==
    /\ inq' = After(inq, size)
    /\ trace' = Append(trace, ConnCall("read", size, conn_read(inq, size)))

----------------------------------------------------------------------------
(* list_pictures, list_files.                                              *)

Parsed(ok, val, exc) == [ok |-> ok, val |-> val, exc |-> exc]

\* faulty variant: the prefix is left on the file name
picture_entry_keeps_prefix(l) ==
    LET parts == split(l, ",")
    IN  IF decodable(l) /\ Len(parts) = 2 /\ int(parts[2]).ok
        THEN Parsed(TRUE, FileEntry(parts[1], int(parts[2]).val, "file"), NoError)
        ELSE Parsed(FALSE, <<>>, Raised("ValueError", "unpack", l))

\* lines 96-97: filename, size = l.decode().removeprefix('+PL:').split(',')
picture_entry(l) ==
    IF ~decodable(l)
    THEN Parsed(FALSE, <<>>, Raised("UnicodeDecodeError", "", <<>>))
    ELSE LET parts == split(removeprefix(l, PL_PREFIX), ",")
         IN  IF Len(parts) # 2
             THEN Parsed(FALSE, <<>>, Raised("ValueError", "unpack", l))
             ELSE IF ~int(parts[2]).ok
             THEN Parsed(FALSE, <<>>, Raised("ValueError", "invalid literal", parts[2]))
             ELSE Parsed(TRUE, FileEntry(parts[1], int(parts[2]).val, "file"), NoError)

\* lines 113-116
file_entry(l) ==
    IF ~decodable(l)
    THEN Parsed(FALSE, <<>>, Raised("UnicodeDecodeError", "", <<>>))
    ELSE LET parts == split(removeprefix(l, FL_PREFIX), ",")
         IN  IF Len(parts) # 3
             THEN Parsed(FALSE, <<>>, Raised("ValueError", "unpack", l))
             ELSE IF ~int(parts[3]).ok
             THEN Parsed(FALSE, <<>>, Raised("ValueError", "invalid literal", parts[3]))
             ELSE IF parts[2] \notin {<<"f", "i", "l", "e">>, <<"d", "i", "r">>}
             THEN Parsed(FALSE, <<>>, Raised("ValueError", "not a FileEntryType", parts[2]))
             ELSE Parsed(TRUE,
                         FileEntry(parts[1], int(parts[3]).val,
                                   IF parts[2] = <<"d", "i", "r">> THEN "dir" ELSE "file"),
                         NoError)

list_pictures ==
    /\ Enter("list_pictures", NoArgs)
    /\ __send_command(AT_GPL)
    /\ Goto("list_pictures_readline")
    /\ UNCHANGED <<result, resps, read_size, inq, rx, nframes, debug,
                   files, dstate, uploaded, stale, failed,
                   identity, timed_out, error_line>>

list_pictures_readline ==
    /\ pc = "list_pictures_readline"
    /\ LineReady
    /\ TakeLine(__readline(inq))
    /\ LET r == __readline(inq)
       IN  IF r.raised THEN Raise(r.exc) /\ UNCHANGED result
           ELSE IF startswith(r.line, EVN_PREFIX)
           THEN Goto("list_pictures_readline") /\ UNCHANGED result
           ELSE IF startswith(r.line, OK_PREFIX)
           THEN Return(Value("list", result)) /\ UNCHANGED result
           ELSE IF picture_entry(r.line).ok
           THEN /\ result' = Append(result, picture_entry(r.line).val)
                /\ Goto("list_pictures_readline")
           ELSE Raise(picture_entry(r.line).exc) /\ UNCHANGED result
    /\ UNCHANGED <<op, args, resps, read_size, outq, rx, nframes, debug,
                   files, dstate, uploaded, stale, failed,
                   identity, timed_out, error_line>>

list_files ==
    /\ Enter("list_files", NoArgs)
    /\ __send_command(AT_GFL)
    /\ Goto("list_files_readline")
    /\ UNCHANGED <<result, resps, read_size, inq, rx, nframes, debug,
                   files, dstate, uploaded, stale, failed,
                   identity, timed_out, error_line>>

list_files_readline ==
    /\ pc = "list_files_readline"
    /\ LineReady
    /\ TakeLine(__readline(inq))
    /\ LET r == __readline(inq)
       IN  IF r.raised THEN Raise(r.exc) /\ UNCHANGED result
           ELSE IF startswith(r.line, EVN_PREFIX)
           THEN Goto("list_files_readline") /\ UNCHANGED result
           ELSE IF startswith(r.line, OK_PREFIX)
           THEN Return(Value("list", result)) /\ UNCHANGED result
           ELSE IF file_entry(r.line).ok
           THEN /\ result' = Append(result, file_entry(r.line).val)
                /\ Goto("list_files_readline")
           ELSE Raise(file_entry(r.line).exc) /\ UNCHANGED result
    /\ UNCHANGED <<op, args, resps, read_size, outq, rx, nframes, debug,
                   files, dstate, uploaded, stale, failed,
                   identity, timed_out, error_line>>

----------------------------------------------------------------------------
(* read_file.                                                              *)

read_file(filename) ==
    /\ Enter("read_file", Args(filename, <<>>, 0, WifiConfig(<<>>, <<>>)))
    /\ __send_command(AT_GF \o filename)
    /\ Goto("read_file_response")
    /\ UNCHANGED <<result, resps, read_size, inq, rx, nframes, debug,
                   files, dstate, uploaded, stale, failed,
                   identity, timed_out, error_line>>

\* faulty variant: the terminator's line break is not counted
read_file_size_plus_6(response) ==
    IF ~contains(response, ",")
    THEN Parsed(FALSE, 0, Raised("IOError", "Malformed response to command AT+GF", response))
    ELSE IF ~int(split(response, ",")[2]).ok
    THEN Parsed(FALSE, 0, Raised("ValueError", "invalid literal", split(response, ",")[2]))
    ELSE Parsed(TRUE, int(split(response, ",")[2]).val + 6, NoError)

\* faulty variant: the comma check of line 127 is missing, a header without a size
\* counts as size 0
read_file_size_no_comma_check(response) ==
    IF ~contains(response, ",") THEN Parsed(TRUE, 8, NoError)
    ELSE IF ~int(split(response, ",")[2]).ok
    THEN Parsed(FALSE, 0, Raised("ValueError", "invalid literal", split(response, ",")[2]))
    ELSE Parsed(TRUE, int(split(response, ",")[2]).val + 8, NoError)

\* lines 127-130, on the header line `response`: the exception raised, or
\* the value of read_size
read_file_size(response) ==
    IF ~contains(response, ",")
    THEN Parsed(FALSE, 0, Raised("IOError", "Malformed response to command AT+GF", response))
    ELSE IF ~int(split(response, ",")[2]).ok
    THEN Parsed(FALSE, 0, Raised("ValueError", "invalid literal", split(response, ",")[2]))
    ELSE Parsed(TRUE, int(split(response, ",")[2]).val + 8, NoError)

\* lines 126-131: response = self.__read_response('+GF:') and the header checks
read_file_response ==
    /\ pc = "read_file_response"
    /\ LineReady
    /\ TakeLine(__read_response(GF_PREFIX, inq))
    /\ LET r == __read_response(GF_PREFIX, inq)
       IN  IF r.raised THEN Raise(r.exc) /\ UNCHANGED <<resps, read_size>>
           ELSE IF ~r.returned
           THEN Goto("read_file_response") /\ UNCHANGED <<resps, read_size>>
           ELSE /\ resps' = Append(resps, r.line)
                /\ IF read_file_size(r.line).ok
                   THEN /\ read_size' = read_file_size(r.line).val
                        /\ Goto("read_file_read")
                   ELSE Raise(read_file_size(r.line).exc) /\ UNCHANGED read_size
    /\ UNCHANGED <<op, args, result, outq, rx, nframes, debug, files,
                   dstate, uploaded, stale, failed,
                   identity, timed_out, error_line>>

\* line 133: assert response[-6:] == b'\r\nOK\r\n' (no check when not __debug__)
read_file_assert(response, dbg) ==
    dbg => slice_from(response, -6) = TERMINATOR

\* faulty variant: the line break after the header is kept
read_file_payload_keeps_break(response) == slice(response, 0, -6)

\* line 134: return response[2:-6]
read_file_payload(response) == slice(response, 2, -6)

\* lines 132-134: response = self.conn.read(read_size), assert, return
read_file_read ==
    /\ pc = "read_file_read"
    /\ BytesReady(read_size)
    /\ TakeBytes(read_size)
    /\ IF read_file_assert(conn_read(inq, read_size), debug)
       THEN Return(Value("bytes", read_file_payload(conn_read(inq, read_size))))
       ELSE Raise(Raised("AssertionError", "", <<>>))
    /\ UNCHANGED <<op, args, result, resps, read_size, outq, rx, nframes,
                   debug, files, dstate, uploaded, stale, failed,
                   identity, timed_out, error_line>>

----------------------------------------------------------------------------
(* upload_file.                                                            *)

upload_file(filename, data) ==
    /\ Enter("upload_file", Args(filename, data, 0, WifiConfig(<<>>, <<>>)))
    /\ __send_command(AT_UF \o filename \o <<",">> \o format_d(Len(data)))
    /\ Goto("upload_file_readline")
    /\ UNCHANGED <<result, resps, read_size, inq, rx, nframes, debug,
                   files, dstate, uploaded, stale, failed,
                   identity, timed_out, error_line>>

\* faulty variant: the payload is written whatever line was read
upload_file_readline_writes_anyway ==
    /\ pc = "upload_file_readline"
    /\ LineReady
    /\ inq' = After(inq, Len(__readline(inq).raw))
    /\ LET r == __readline(inq)
           read == Append(trace, ConnCall("readline", Len(r.raw), r.raw))
       IN  /\ outq' = outq \o args.data
           /\ trace' = Append(read, ConnCall("write", Len(args.data), args.data))
           /\ IF r.raised THEN Raise(r.exc) ELSE Goto("upload_file_read")
    /\ UNCHANGED <<op, args, result, resps, read_size, rx, nframes, debug,
                   files, dstate, uploaded, stale, failed,
                   identity, timed_out, error_line>>

\* lines 139-141: self.__readline(), then self.conn.write(data)
upload_file_readline ==
    /\ pc = "upload_file_readline"
    /\ LineReady
    /\ inq' = After(inq, Len(__readline(inq).raw))
    /\ LET r == __readline(inq)
           read == Append(trace, ConnCall("readline", Len(r.raw), r.raw))
       IN  IF r.raised
           THEN Raise(r.exc) /\ trace' = read /\ UNCHANGED outq
           ELSE /\ outq' = outq \o args.data
                /\ trace' = Append(read, ConnCall("write", Len(args.data), args.data))
                /\ Goto("upload_file_read")
    /\ UNCHANGED <<op, args, result, resps, read_size, rx, nframes, debug,
                   files, dstate, uploaded, stale, failed,
                   identity, timed_out, error_line>>

\* line 143: assert terminator == b'\r\nOK\r\n' (no check when not __debug__)
upload_file_assert(terminator, dbg) == dbg => terminator = TERMINATOR

\* lines 142-143: terminator = self.conn.read(6), assert
upload_file_read ==
    /\ pc = "upload_file_read"
    /\ BytesReady(6)
    /\ TakeBytes(6)
    /\ IF upload_file_assert(conn_read(inq, 6), debug)
       THEN Return(None)
       ELSE Raise(Raised("AssertionError", "", <<>>))
    /\ UNCHANGED <<op, args, result, resps, read_size, outq, rx, nframes,
                   debug, files, dstate, uploaded, stale, failed,
                   identity, timed_out, error_line>>

----------------------------------------------------------------------------
(* Methods made of __send_command and __read_response only.                *)

\* One turn of self.__read_response(prefix) at position p, going on at
\* position next once it has returned
Await(p, prefix, next) ==
    /\ pc = p
    /\ LineReady
    /\ \E r \in {__read_response(prefix, inq)} :
          /\ TakeLine(r)
          /\ IF r.raised THEN Raise(r.exc) /\ UNCHANGED resps
             ELSE IF ~r.returned THEN Goto(p) /\ UNCHANGED resps
             ELSE /\ resps' = Append(resps, r.line)
                  /\ IF next = "done" THEN Return(None) ELSE Goto(next)
    /\ UNCHANGED <<op, args, result, read_size, outq, rx, nframes, debug,
                   files, dstate, uploaded, stale, failed,
                   identity, timed_out, error_line>>

delete_file(filename) ==
    /\ Enter("delete_file", Args(filename, <<>>, 0, WifiConfig(<<>>, <<>>)))
    /\ __send_command(AT_DF \o filename)
    /\ Goto("delete_file_response_df")
    /\ UNCHANGED <<result, resps, read_size, inq, rx, nframes, debug,
                   files, dstate, uploaded, stale, failed,
                   identity, timed_out, error_line>>

\* faulty variant: line 148 awaits 'OK' instead of '+DF:'
delete_file_response_df_awaits_ok ==
    Await("delete_file_response_df", OK_PREFIX, "delete_file_response_ok")

delete_file_response_df ==
    Await("delete_file_response_df", DF_PREFIX, "delete_file_response_ok")

delete_file_response_ok == Await("delete_file_response_ok", OK_PREFIX, "done")

set_active_picture(filename) ==
    /\ Enter("set_active_picture", Args(filename, <<>>, 0, WifiConfig(<<>>, <<>>)))
    /\ __send_command(AT_SP \o filename)
    /\ Goto("set_active_picture_response")
    /\ UNCHANGED <<result, resps, read_size, inq, rx, nframes, debug,
                   files, dstate, uploaded, stale, failed,
                   identity, timed_out, error_line>>

set_active_picture_response == Await("set_active_picture_response", OK_PREFIX, "done")

\* faulty variant: 0 is accepted
brightness_out_of_range_below_zero(brightness) ==
    brightness < 0 \/ brightness > MaxBrightness

\* line 167: brightness < 1 or brightness > 100
brightness_out_of_range(brightness) ==
    brightness < MinBrightness \/ brightness > MaxBrightness

set_display_brightness(brightness) ==
    /\ Enter("set_display_brightness", Args(<<>>, <<>>, brightness, WifiConfig(<<>>, <<>>)))
    /\ IF brightness_out_of_range(brightness)
       THEN /\ Raise(Raised("ValueError", "Brightness must be between 1 and 100", <<>>))
            /\ UNCHANGED <<outq, trace>>
       ELSE /\ __send_command(AT_DB \o format_d(brightness))
            /\ Goto("set_display_brightness_response")
    /\ UNCHANGED <<result, resps, read_size, inq, rx, nframes, debug,
                   files, dstate, uploaded, stale, failed,
                   identity, timed_out, error_line>>

set_display_brightness_response ==
    Await("set_display_brightness_response", OK_PREFIX, "done")

set_wifi_config(wifi_config) ==
    /\ Enter("set_wifi_config", Args(<<>>, <<>>, 0, wifi_config))
    /\ __send_command(AT_WC \o wifi_config.ssid \o <<",">> \o wifi_config.password)
    /\ Goto("set_wifi_config_response")
    /\ UNCHANGED <<result, resps, read_size, inq, rx, nframes, debug,
                   files, dstate, uploaded, stale, failed,
                   identity, timed_out, error_line>>

set_wifi_config_response == Await("set_wifi_config_response", OK_PREFIX, "done")

reset_wifi_config ==
    /\ Enter("reset_wifi_config", NoArgs)
    /\ __send_command(AT_FRWCF)
    /\ Goto("reset_wifi_config_response")
    /\ UNCHANGED <<result, resps, read_size, inq, rx, nframes, debug,
                   files, dstate, uploaded, stale, failed,
                   identity, timed_out, error_line>>

reset_wifi_config_response == Await("reset_wifi_config_response", OK_PREFIX, "done")

----------------------------------------------------------------------------
(* Queries: __exec_query, __exec_gquery and the getters built on them.     *)

\* lines 211, 217: response.decode().removeprefix(response_prefix)
query_value(response, response_prefix) ==
    IF decodable(response)
    THEN Parsed(TRUE, removeprefix(response, response_prefix), NoError)
    ELSE Parsed(FALSE, <<>>, Raised("UnicodeDecodeError", "", <<>>))

\* int(...) of a query's value
query_int(value) ==
    IF ~value.ok THEN value
    ELSE IF int(value.val).ok THEN Parsed(TRUE, Value("int", int(value.val).val), NoError)
    ELSE Parsed(FALSE, <<>>, Raised("ValueError", "invalid literal", value.val))

\* lines 173-177
wifi_config_of(value) ==
    IF ~value.ok THEN value
    ELSE IF ~contains(value.val, ",")
    THEN Parsed(FALSE, <<>>, Raised("IOError", "Malformed response to command AT+WC", value.val))
    ELSE Parsed(TRUE,
                Value("WifiConfig",
                      WifiConfig(split1(value.val, ",")[1], split1(value.val, ",")[2])),
                NoError)

\* One turn of __read_response inside __exec_query / __exec_gquery at
\* position p; outcome is what the getter makes of the line returned
Query(p, prefix, outcome) ==
    /\ pc = p
    /\ LineReady
    /\ \E r \in {__read_response(prefix, inq)} :
          /\ TakeLine(r)
          /\ IF r.raised THEN Raise(r.exc) /\ UNCHANGED resps
             ELSE IF ~r.returned THEN Goto(p) /\ UNCHANGED resps
             ELSE /\ resps' = Append(resps, r.line)
                  /\ \E o \in {outcome} :
                        IF o.ok THEN Return(o.val) ELSE Raise(o.exc)
    /\ UNCHANGED <<op, args, result, read_size, outq, rx, nframes, debug,
                   files, dstate, uploaded, stale, failed,
                   identity, timed_out, error_line>>

\* the line __read_response(prefix) is about to yield on queue q
Line(prefix, q) == __read_response(prefix, q).line

get_active_picture ==
    /\ Enter("get_active_picture", NoArgs)
    /\ __send_command(QueryCommand(ATTR_SP))
    /\ Goto("get_active_picture_response")
    /\ UNCHANGED <<result, resps, read_size, inq, rx, nframes, debug,
                   files, dstate, uploaded, stale, failed,
                   identity, timed_out, error_line>>

get_active_picture_value(response) ==
    IF query_value(response, ResponsePrefix(ATTR_SP)).ok
    THEN Parsed(TRUE, Value("str", query_value(response, ResponsePrefix(ATTR_SP)).val), NoError)
    ELSE query_value(response, ResponsePrefix(ATTR_SP))

get_active_picture_response ==
    Query("get_active_picture_response", ResponsePrefix(ATTR_SP),
          get_active_picture_value(Line(ResponsePrefix(ATTR_SP), inq)))

get_free_storage ==
    /\ Enter("get_free_storage", NoArgs)
    /\ __send_command(GQueryCommand(ATTR_FSS))
    /\ Goto("get_free_storage_response")
    /\ UNCHANGED <<result, resps, read_size, inq, rx, nframes, debug,
                   files, dstate, uploaded, stale, failed,
                   identity, timed_out, error_line>>

get_free_storage_response ==
    Query("get_free_storage_response", ResponsePrefix(ATTR_FSS),
          query_int(query_value(Line(ResponsePrefix(ATTR_FSS), inq),
                                ResponsePrefix(ATTR_FSS))))

get_display_brightness ==
    /\ Enter("get_display_brightness", NoArgs)
    /\ __send_command(QueryCommand(ATTR_DB))
    /\ Goto("get_display_brightness_response")
    /\ UNCHANGED <<result, resps, read_size, inq, rx, nframes, debug,
                   files, dstate, uploaded, stale, failed,
                   identity, timed_out, error_line>>

get_display_brightness_response ==
    Query("get_display_brightness_response", ResponsePrefix(ATTR_DB),
          query_int(query_value(Line(ResponsePrefix(ATTR_DB), inq),
                                ResponsePrefix(ATTR_DB))))

get_wifi_config ==
    /\ Enter("get_wifi_config", NoArgs)
    /\ __send_command(QueryCommand(ATTR_WC))
    /\ Goto("get_wifi_config_response")
    /\ UNCHANGED <<result, resps, read_size, inq, rx, nframes, debug,
                   files, dstate, uploaded, stale, failed,
                   identity, timed_out, error_line>>

get_wifi_config_response ==
    Query("get_wifi_config_response", ResponsePrefix(ATTR_WC),
          wifi_config_of(query_value(Line(ResponsePrefix(ATTR_WC), inq),
                                     ResponsePrefix(ATTR_WC))))

\* the method's caller has its result (or its exception): the session is
\* idle again, and what is left in the connection is offered to the next call
Finish ==
    /\ pc = "done"
    /\ pc' = "idle"
    /\ op' = "" /\ args' = NoArgs /\ ret' = NoValue /\ err' = NoError
    /\ result' = <<>> /\ resps' = <<>> /\ read_size' = 0
    /\ trace' = <<>> /\ rx' = inq
    /\ UNCHANGED <<inq, outq, nframes, debug, files, dstate, identity,
                   timed_out, error_line>>

Complete == Finish /\ UNCHANGED <<uploaded, stale, failed>>

\* the same, by a caller that remembers what it has uploaded
CompleteRoundTrip ==
    /\ Finish
    /\ uploaded' = IF op = "upload_file" /\ err = NoError
                   THEN Value("bytes", args.data) ELSE uploaded
    /\ UNCHANGED <<stale, failed>>

\* the same, with a record of how the call ended and of what it left unread
CompleteRecorded ==
    /\ Finish
    /\ stale' = inq
    /\ failed' = ProtocolError(err)
    /\ UNCHANGED uploaded

----------------------------------------------------------------------------
(* Device.__init__ and the properties.                                     *)

\* lines 76-80: the attribute queried for each private field, in order, and
\* the position of the host while it waits for the answer
InitQueries ==
    << [pc |-> "__init___capacity", field |-> "capacity",
        attribute |-> <<"T", "S", "S">>],
       [pc |-> "__init___device_id", field |-> "device_id",
        attribute |-> <<"I", "D">>],
       [pc |-> "__init___firmware_version", field |-> "firmware_version",
        attribute |-> <<"F", "V">>],
       [pc |-> "__init___manufacturer", field |-> "manufacturer",
        attribute |-> <<"M", "N">>],
       [pc |-> "__init___name", field |-> "name",
        attribute |-> <<"D", "N">>] >>

\* the positions of the host inside Device.__init__
InitPositions == {InitQueries[i].pc : i \in 1..Len(InitQueries)}

\* lines 66-76: the connection is taken and the first query is sent
__init__ ==
    /\ pc = "new"
    /\ op' = "__init__"
    /\ __send_command(GQueryCommand(InitQueries[1].attribute))
    /\ Goto(InitQueries[1].pc)
    /\ UNCHANGED <<args, result, resps, read_size, inq, rx, nframes, debug,
                   files, dstate, uploaded, stale, failed, identity,
                   timed_out, error_line>>

\* the constructor raises: no Device exists
InitFails(e) == pc' = "failed" /\ err' = e /\ UNCHANGED <<ret, resps, identity, outq>>

\* lines 76-80: one turn of __read_response inside the i-th __exec_gquery;
\* once it returns, the field is set and the next query is sent
__init___response ==
    \E i \in 1..Len(InitQueries) :
        /\ pc = InitQueries[i].pc
        /\ LineReady
        /\ inq' = After(inq, Len(conn_readline(inq)))
        /\ LET q == InitQueries[i]
               r == __read_response(ResponsePrefix(q.attribute), inq)
               read == Append(trace, ConnCall("readline", Len(r.raw), r.raw))
               text == query_value(r.line, ResponsePrefix(q.attribute))
               value == IF q.field = "capacity" THEN query_int(text) ELSE text
               next == GQueryCommand(InitQueries[i + 1].attribute) \o CRLF
           IN  IF r.raised THEN InitFails(r.exc) /\ trace' = read
               ELSE IF ~r.returned
               THEN Goto(q.pc) /\ trace' = read /\ UNCHANGED <<resps, identity, outq>>
               ELSE IF ~value.ok THEN InitFails(value.exc) /\ trace' = read
               ELSE /\ resps' = Append(resps, r.line)
                    /\ identity' = [identity EXCEPT ![q.field] =
                                        IF q.field = "capacity" THEN value.val.val
                                        ELSE value.val]
                    /\ IF i < Len(InitQueries)
                       THEN /\ outq' = outq \o next
                            /\ trace' = Append(read, ConnCall("write", Len(next), next))
                            /\ Goto(InitQueries[i + 1].pc)
                       ELSE Return(None) /\ trace' = read /\ UNCHANGED outq
        /\ UNCHANGED <<op, args, result, read_size, rx, nframes, debug, files,
                       dstate, uploaded, stale, failed, timed_out, error_line>>

\* faulty variant: the property asks the device again
property_refetched(name) ==
    /\ Enter(name, NoArgs)
    /\ __send_command(AT_PLUS \o <<"G">>)
    /\ Return(Value(IF name = "capacity" THEN "int" ELSE "str", identity[name]))
    /\ UNCHANGED <<result, resps, read_size, inq, rx, nframes, debug,
                   files, dstate, uploaded, stale, failed,
                   identity, timed_out, error_line>>

\* lines 187-205: capacity, device_id, firmware_version, manufacturer, name
property(name) ==
    /\ Enter(name, NoArgs)
    /\ Return(Value(IF name = "capacity" THEN "int" ELSE "str", identity[name]))
    /\ UNCHANGED <<result, resps, read_size, inq, outq, trace, rx, nframes,
                   debug, files, dstate, uploaded, stale, failed,
                   identity, timed_out, error_line>>

----------------------------------------------------------------------------
(* The device: what it may put on the line.                                *)

EVN == <<"+", "e", "v", "n", ":", "1", CR, LF>>
OK_LINE == <<"O", "K", CR, LF>>
ERROR_3 == <<"E", "R", "R", "O", "R", ":", "3", CR, LF>>
ERROR_1 == <<"E", "R", "R", "O", "R", ":", "1", CR, LF>>
ERROR_BARE == <<"E", "R", "R", "O", "R", CR, LF>>
ERROR_NON_ASCII == <<"E", "R", "R", "O", "R", ":", NonAscii, CR, LF>>
PL_A == <<"+", "P", "L", ":", "a", ".", "p", "n", "g", ",", "1", "0", CR, LF>>
PL_B == <<"+", "P", "L", ":", "b", ".", "g", "i", "f", ",", "2", "0", "4", "8", CR, LF>>
PL_MALFORMED == <<"+", "P", "L", ":", "a", ".", "p", "n", "g", CR, LF>>
FL_A == <<"+", "F", "L", ":", "a", ".", "p", "n", "g", ",", "f", "i", "l", "e", ",", "1", "0", CR, LF>>
FL_D == <<"+", "F", "L", ":", "d", ",", "d", "i", "r", ",", "0", CR, LF>>
FL_MALFORMED == <<"+", "F", "L", ":", "a", ".", "p", "n", "g", ",", "1", "0", CR, LF>>
GF_NO_COMMA == <<"+", "G", "F", ":", "a", ".", "p", "n", "g", CR, LF>>
GF_NOT_A_NUMBER == <<"+", "G", "F", ":", "a", ".", "p", "n", "g", ",", "x", CR, LF>>
BAD_TERMINATOR == <<CR, LF, "K", "O", CR, LF>>
DF_LINE == <<"+", "D", "F", ":", "a", ".", "p", "n", "g", CR, LF>>
SP_LINE == <<"+", "S", "P", ":", "a", ".", "p", "n", "g", CR, LF>>
FSS_LINE == <<"+", "F", "S", "S", ":", "2", "0", "4", "8", CR, LF>>
DB_LINE == <<"+", "D", "B", ":", "5", "0", CR, LF>>
DB_PADDED == <<"+", "D", "B", ":", " ", "7", " ", CR, LF>>
DB_MALFORMED == <<"+", "D", "B", ":", "x", CR, LF>>
WC_LINE == <<"+", "W", "C", ":", "n", ",", "p", CR, LF>>
WC_NO_COMMA == <<"+", "W", "C", ":", "n", CR, LF>>
WC_COMMAS == <<"+", "W", "C", ":", "n", ",", "p", ",", "q", CR, LF>>
UF_PREFIX == <<"+", "U", "F", ":">>

ErrorFrames == {ERROR_3, ERROR_BARE, ERROR_NON_ASCII}

\* reply to AT+GF=<name>: header line, line break, payload, terminator
GFHeader(name, size) == GF_PREFIX \o name \o <<",">> \o format_d(size) \o CRLF
GFBody(payload, terminator) == CRLF \o payload \o terminator
GFFrame(name, payload, terminator) ==
    GFHeader(name, Len(payload)) \o GFBody(payload, terminator)

\* readiness acknowledgment of AT+UF=<name>,<size>
UFAck(name, size) == UF_PREFIX \o name \o <<",">> \o format_d(size) \o CRLF

Terminators == {TERMINATOR, BAD_TERMINATOR}

\* n event lines in a row
RECURSIVE Events(_)
Events(n) == IF n = 0 THEN <<>> ELSE EVN \o Events(n - 1)

\* the frames an arbitrary device may send while the host waits at pc
Replies ==
    CASE pc = "list_pictures_readline" ->
            {EVN, OK_LINE, OK_LINE \o EVN, PL_A, PL_B, PL_MALFORMED} \cup ErrorFrames
      [] pc = "list_files_readline" ->
            {EVN, OK_LINE, OK_LINE \o EVN, FL_A, FL_D, FL_MALFORMED} \cup ErrorFrames
      [] pc = "read_file_response" ->
            {EVN, SP_LINE, GF_NO_COMMA, GF_NOT_A_NUMBER} \cup ErrorFrames
            \cup {GFHeader(args.filename, Len(p)) : p \in Payloads}
            \cup {GFFrame(args.filename, p, t) : p \in Payloads, t \in Terminators}
      [] pc = "read_file_read" ->
            {GFBody(p, t) : p \in {q \in Payloads : Len(q) + 8 = read_size},
                            t \in Terminators}
      [] pc = "upload_file_readline" ->
            {EVN, OK_LINE, UFAck(args.filename, Len(args.data))} \cup ErrorFrames
      [] pc = "upload_file_read" ->
            {TERMINATOR, BAD_TERMINATOR, EVN, ERROR_3}
      [] pc \in {"delete_file_response_df", "delete_file_response_ok"} ->
            {EVN, DF_LINE, OK_LINE, SP_LINE} \cup ErrorFrames
      [] pc \in {"set_active_picture_response", "set_display_brightness_response",
                 "set_wifi_config_response", "reset_wifi_config_response"} ->
            {EVN, OK_LINE, SP_LINE} \cup ErrorFrames
      [] pc = "get_active_picture_response" ->
            {EVN, SP_LINE, DB_LINE, OK_LINE} \cup ErrorFrames
      [] pc = "get_free_storage_response" ->
            {EVN, FSS_LINE, SP_LINE, OK_LINE} \cup ErrorFrames
      [] pc = "get_display_brightness_response" ->
            {EVN, DB_LINE, DB_PADDED, DB_MALFORMED, SP_LINE, OK_LINE} \cup ErrorFrames
      [] pc = "get_wifi_config_response" ->
            {EVN, WC_LINE, WC_NO_COMMA, WC_COMMAS, SP_LINE} \cup ErrorFrames
      [] OTHER -> {}

\* the host is inside a call
Calling == pc \notin {"new", "failed", "idle", "done"}

\* the host is inside a blocking read that the bytes received cannot end
Blocked ==
    CASE ~Calling -> FALSE
      [] pc = "read_file_read" -> ~HasBytes(inq, read_size)
      [] pc = "upload_file_read" -> ~HasBytes(inq, 6)
      [] OTHER -> ~HasLine(inq)

\* what a device may answer to the queries of Device.__init__
IdentityReplies ==
    CASE pc = "__init___capacity" ->
            {<<"+", "T", "S", "S", ":", "4", "0", "9", "6", CR, LF>>,
             EVN \o <<"+", "T", "S", "S", ":", "4", "0", "9", "6", CR, LF>>,
             <<"+", "T", "S", "S", ":", "x", CR, LF>>, ERROR_3}
      [] pc = "__init___device_id" -> {<<"+", "I", "D", ":", "1", CR, LF>>}
      [] pc = "__init___firmware_version" ->
            {<<"+", "F", "V", ":", "2", ".", "0", CR, LF>>}
      [] pc = "__init___manufacturer" -> {<<"+", "M", "N", ":", "m", CR, LF>>}
      [] pc = "__init___name" ->
            {<<"+", "D", "N", ":", "t", CR, LF>>, <<"+", "D", "N", ":", "u", CR, LF>>}
      [] OTHER -> {}

\* the device answers a query of Device.__init__
DeviceIdentifies ==
    /\ Blocked
    /\ \E f \in IdentityReplies : inq' = inq \o f /\ rx' = rx \o f
    /\ outq' = <<>>
    /\ UNCHANGED <<pc, op, args, ret, err, result, resps, read_size, trace,
                   nframes, debug, files, dstate, uploaded, stale, failed,
                   identity, timed_out, error_line>>

\* an arbitrary device sends one more frame while the host waits; it has
\* taken what was written
DeviceSend ==
    /\ Blocked
    /\ ~timed_out
    /\ pc \notin InitPositions
    /\ nframes < MaxFrames
    /\ \E f \in Replies : inq' = inq \o f /\ rx' = rx \o f
    /\ nframes' = nframes + 1
    /\ outq' = <<>>
    /\ UNCHANGED <<pc, op, args, ret, err, result, resps, read_size, trace,
                   debug, files, dstate, uploaded, stale, failed,
                   identity, timed_out, error_line>>

----------------------------------------------------------------------------
(* The device that stores uploaded files.                                  *)

Absent == Value("absent", <<>>)

\* what the storing device does with the command line `command`
\* (line break stripped): the bytes it sends and its next state
StoreCommand(command) ==
    IF startswith(command, AT_UF)
    THEN LET parts == split(removeprefix(command, AT_UF), ",")
         IN  [send |-> UFAck(parts[1], int(parts[2]).val),
              next |-> [state |-> "data", name |-> parts[1],
                        need |-> int(parts[2]).val]]
    ELSE IF startswith(command, AT_GF)
    THEN LET name == removeprefix(command, AT_GF)
         IN  [send |-> IF name \in DOMAIN files /\ files[name] # Absent
                       THEN GFFrame(name, files[name].val, TERMINATOR)
                       ELSE ERROR_3,
              next |-> dstate]
    ELSE [send |-> ERROR_1, next |-> dstate]

\* the storing device takes a command line and answers it
StoreDeviceCommand ==
    /\ dstate.state = "command"
    /\ HasLine(outq)
    /\ outq' = After(outq, Len(conn_readline(outq)))
    /\ LET c == StoreCommand(strip(conn_readline(outq)))
       IN  /\ inq' = inq \o c.send
           /\ rx' = rx \o c.send
           /\ dstate' = c.next
    /\ UNCHANGED <<pc, op, args, ret, err, result, resps, read_size, trace,
                   nframes, debug, files, uploaded, stale, failed,
                   identity, timed_out, error_line>>

\* the storing device has received the announced bytes: it stores them and
\* sends the terminator
StoreDeviceData ==
    /\ dstate.state = "data"
    /\ HasBytes(outq, dstate.need)
    /\ files' = [files EXCEPT ![dstate.name] = Value("bytes", conn_read(outq, dstate.need))]
    /\ outq' = After(outq, dstate.need)
    /\ inq' = inq \o TERMINATOR
    /\ rx' = rx \o TERMINATOR
    /\ dstate' = [state |-> "command", name |-> <<>>, need |-> 0]
    /\ UNCHANGED <<pc, op, args, ret, err, result, resps, read_size, trace,
                   nframes, debug, uploaded, stale, failed,
                   identity, timed_out, error_line>>

----------------------------------------------------------------------------
(* Specifications.                                                         *)

\* the session right after Device.__init__, with nothing pending on the line
Init ==
    /\ pc = "idle" /\ op = "" /\ args = NoArgs
    /\ ret = NoValue /\ err = NoError
    /\ result = <<>> /\ resps = <<>> /\ read_size = 0
    /\ inq = <<>> /\ outq = <<>> /\ trace = <<>> /\ rx = <<>>
    /\ nframes = 0
    /\ debug \in BOOLEAN
    /\ files = [n \in FileNames |-> Absent]
    /\ dstate = [state |-> "command", name |-> <<>>, need |-> 0]
    /\ uploaded = NoValue
    /\ stale = <<>> /\ failed = FALSE
    /\ identity = Identity(4096, <<"1">>, <<"2", ".", "0">>, <<"m">>, <<"t">>)
    /\ timed_out = FALSE
    /\ error_line = <<>>

\* the methods of Device
Methods ==
    \/ list_pictures
    \/ list_pictures_readline
    \/ list_files
    \/ list_files_readline
    \/ \E f \in FileNames : read_file(f)
    \/ read_file_response
    \/ read_file_read
    \/ \E f \in FileNames, d \in Payloads : upload_file(f, d)
    \/ upload_file_readline
    \/ upload_file_read
    \/ \E f \in FileNames : delete_file(f)
    \/ delete_file_response_df
    \/ delete_file_response_ok
    \/ \E f \in FileNames : set_active_picture(f)
    \/ set_active_picture_response
    \/ get_active_picture
    \/ get_active_picture_response
    \/ get_free_storage
    \/ get_free_storage_response
    \/ get_display_brightness
    \/ get_display_brightness_response
    \/ \E b \in BrightnessInputs : set_display_brightness(b)
    \/ set_display_brightness_response
    \/ get_wifi_config
    \/ get_wifi_config_response
    \/ \E w \in WifiConfigs : set_wifi_config(w)
    \/ set_wifi_config_response
    \/ reset_wifi_config
    \/ reset_wifi_config_response

\* the methods of Device, one call after another
Device == Methods \/ Complete

\* the Device methods against an arbitrary device
Next == Device \/ DeviceSend

Spec == Init /\ [][Next]_vars

\* methods made of __send_command and __read_response alone: those that await
\* OK, and one query
ResponseCalls ==
    \/ \E f \in FileNames : delete_file(f)
    \/ delete_file_response_df
    \/ delete_file_response_ok
    \/ \E f \in FileNames : set_active_picture(f)
    \/ set_active_picture_response
    \/ get_active_picture
    \/ get_active_picture_response
    \/ \E b \in BrightnessInputs : set_display_brightness(b)
    \/ set_display_brightness_response
    \/ \E w \in WifiConfigs : set_wifi_config(w)
    \/ set_wifi_config_response
    \/ reset_wifi_config
    \/ reset_wifi_config_response
    \/ Complete

NextLive == ResponseCalls \/ DeviceSend

\* those methods against an arbitrary device, where the host goes on whenever
\* it can: a method that is not inside a blocking read takes its next step
\* (Python runs the statements of a call one after another); the device owes
\* nothing
SpecLive == Init /\ [][NextLive]_vars /\ WF_vars(ResponseCalls)

\* upload_file and read_file against the device that stores uploaded files
NextStore ==
    \/ \E f \in FileNames, d \in Payloads : upload_file(f, d)
    \/ upload_file_readline
    \/ upload_file_read
    \/ \E f \in FileNames : read_file(f)
    \/ read_file_response
    \/ read_file_read
    \/ CompleteRoundTrip
    \/ StoreDeviceCommand
    \/ StoreDeviceData

SpecStore == Init /\ [][NextStore]_vars

----------------------------------------------------------------------------
(* A session from the construction of the Device on.                       *)

InitSession ==
    /\ pc = "new" /\ op = "" /\ args = NoArgs
    /\ ret = NoValue /\ err = NoError
    /\ result = <<>> /\ resps = <<>> /\ read_size = 0
    /\ inq = <<>> /\ outq = <<>> /\ trace = <<>> /\ rx = <<>>
    /\ nframes = 0
    /\ debug \in BOOLEAN
    /\ files = [n \in FileNames |-> Absent]
    /\ dstate = [state |-> "command", name |-> <<>>, need |-> 0]
    /\ uploaded = NoValue
    /\ stale = <<>> /\ failed = FALSE
    /\ identity = NoIdentity
    /\ timed_out = FALSE
    /\ error_line = <<>>

NextSession ==
    \/ __init__
    \/ __init___response
    \/ \E name \in DOMAIN NoIdentity : property(name)
    \/ DeviceIdentifies
    \/ Next

SpecSession == InitSession /\ [][NextSession]_vars

----------------------------------------------------------------------------
(* One call after another against a device that answers each command with  *)
(* a whole reply, at once.                                                 *)

\* the whole replies to the command the host has written: the complete and
\* correct one and, for AT+GF, one whose header has lost its size
Answers ==
    CASE pc = "list_pictures_readline" -> {PL_A \o OK_LINE}
      [] pc = "read_file_response" ->
            {GFFrame(args.filename, <<"x">>, TERMINATOR),
             GF_NO_COMMA \o GFBody(<<"x">>, TERMINATOR)}
      [] pc = "set_active_picture_response" -> {OK_LINE}
      [] pc = "get_active_picture_response" -> {SP_LINE}
      [] pc = "get_display_brightness_response" -> {DB_LINE}
      [] OTHER -> {}

\* the device answers what the host has just written
DeviceAnswers ==
    /\ Calling
    /\ outq # <<>>
    /\ ~timed_out
    /\ nframes < MaxFrames
    /\ \E f \in Answers : inq' = inq \o f /\ rx' = rx \o f
    /\ nframes' = nframes + 1
    /\ outq' = <<>>
    /\ UNCHANGED <<pc, op, args, ret, err, result, resps, read_size, trace,
                   debug, files, dstate, uploaded, stale, failed,
                   identity, timed_out, error_line>>

\* five of the methods, one call after another
NextRecover ==
    \/ list_pictures
    \/ list_pictures_readline
    \/ \E f \in FileNames : read_file(f)
    \/ read_file_response
    \/ read_file_read
    \/ \E f \in FileNames : set_active_picture(f)
    \/ set_active_picture_response
    \/ get_active_picture
    \/ get_active_picture_response
    \/ get_display_brightness
    \/ get_display_brightness_response
    \/ CompleteRecorded
    \/ DeviceAnswers

SpecRecover == Init /\ [][NextRecover]_vars

----------------------------------------------------------------------------
(* The Device methods on a connection that fails.                          *)

\* while the host waits in a read, the connection fails (the stream closes,
\* or the read times out) with nothing more received, or with the first half
\* of the frame the device was sending; from then on its reads return at
\* once with the bytes they have
TransportFails ==
    /\ Blocked
    /\ ~timed_out
    /\ timed_out' = TRUE
    /\ \E f \in Replies \cup {<<>>} :
          /\ inq' = inq \o SubSeq(f, 1, Len(f) \div 2)
          /\ rx' = rx \o SubSeq(f, 1, Len(f) \div 2)
    /\ UNCHANGED <<pc, op, args, ret, err, result, resps, read_size, outq,
                   trace, nframes, debug, files, dstate, uploaded, stale,
                   failed, identity, error_line>>

NextTransport == Next \/ TransportFails

SpecTransport == Init /\ [][NextTransport]_vars

----------------------------------------------------------------------------
(* build_exception run alone, on every byte string of a bounded set.       *)

\* longest error code tried
MaxCodeLen == 2

\* the byte strings tried: a head (the prefix, the prefix without its colon,
\* in lower case, after a blank, another prefix, nothing), an error code of
\* up to MaxCodeLen bytes, and the line break or nothing
ErrorResponses ==
    LET heads == {ERROR_COLON, ERROR_PREFIX, <<"e", "r", "r", "o", "r", ":">>,
                  <<" ">> \o ERROR_COLON, DF_PREFIX, <<>>}
        bytes == {"0", "1", "2", "3", "4", "5", "-", ":", " ", NonAscii}
        codes == UNION {[1..n -> bytes] : n \in 0..MaxCodeLen}
    IN  {h \o c \o t : h \in heads, c \in codes, t \in {<<>>, CRLF}}

InitMapper ==
    /\ pc = "idle" /\ op = "" /\ args = NoArgs
    /\ ret = NoValue /\ err = NoError
    /\ result = <<>> /\ resps = <<>> /\ read_size = 0
    /\ inq = <<>> /\ outq = <<>> /\ trace = <<>> /\ rx = <<>>
    /\ nframes = 0
    /\ debug \in BOOLEAN
    /\ files = [n \in FileNames |-> Absent]
    /\ dstate = [state |-> "command", name |-> <<>>, need |-> 0]
    /\ uploaded = NoValue
    /\ stale = <<>> /\ failed = FALSE
    /\ identity = NoIdentity
    /\ timed_out = FALSE
    /\ error_line \in ErrorResponses

\* build_exception(error_line) is evaluated: err is the exception it returns,
\* or the one raised while it ran
build_exception_call ==
    /\ Enter("build_exception", NoArgs)
    /\ Raise(build_exception(error_line))
    /\ UNCHANGED <<result, resps, read_size, inq, outq, trace, rx, nframes,
                   debug, files, dstate, uploaded, stale, failed, identity,
                   timed_out, error_line>>

NextMapper == build_exception_call \/ CompleteRecorded

SpecMapper == InitMapper /\ [][NextMapper]_vars

----------------------------------------------------------------------------
(* Helpers of the properties below.                                        *)

\* the complete lines of a byte stream, each with its line break
RECURSIVE Lines(_)
Lines(q) == IF HasLine(q)
            THEN <<conn_readline(q)>> \o Lines(After(q, Len(conn_readline(q))))
            ELSE <<>>

\* the number of event lines at the head of a sequence of lines
RECURSIVE LeadingEvents(_)
LeadingEvents(ls) == IF ls # <<>> /\ startswith(Head(ls), EVN_PREFIX)
                     THEN 1 + LeadingEvents(Tail(ls)) ELSE 0

\* the methods that begin with __read_response, and the prefix they await first
ResponseMethods ==
    {"read_file", "delete_file", "set_active_picture", "set_display_brightness",
     "set_wifi_config", "reset_wifi_config", "get_active_picture",
     "get_free_storage", "get_display_brightness", "get_wifi_config"}

AwaitedPrefix ==
    CASE op = "read_file" -> GF_PREFIX
      [] op = "delete_file" -> DF_PREFIX
      [] op = "get_active_picture" -> <<"+", "S", "P", ":">>
      [] op = "get_free_storage" -> <<"+", "F", "S", "S", ":">>
      [] op = "get_display_brightness" -> <<"+", "D", "B", ":">>
      [] op = "get_wifi_config" -> <<"+", "W", "C", ":">>
      [] OTHER -> <<"O", "K">>

\* the calls of one kind in the trace
TraceCalls(kind) == {i \in 1..Len(trace) : trace[i].call = kind}

LastCall == trace[Len(trace)]

----------------------------------------------------------------------------
(* C1: when the stream offered to __read_response(P) is a run of zero or   *)
(* more `+evn` lines followed by a line starting with P, the value it      *)
(* returns is that line (as __readline delivers it, stripped), and it is   *)
(* never an event line; for every method that begins with __read_response. *)

C1_EventsSkipped ==
    (op \in ResponseMethods /\ trace # <<>> /\ (resps # <<>> \/ pc = "done"))
    => LET ls == Lines(rx)
           k == LeadingEvents(ls)
       IN  (k < Len(ls) /\ startswith(ls[k + 1], AwaitedPrefix))
           => /\ resps # <<>>
              /\ resps[1] = strip(ls[k + 1])
              /\ ~startswith(resps[1], EVN_PREFIX)
              /\ Cardinality(TraceCalls("readline")) >= k + 1

C1_Witness ==
    /\ op = "get_display_brightness" /\ pc = "done"
    /\ rx = EVN \o EVN \o EVN \o DB_LINE
    /\ resps = <<strip(DB_LINE)>>
    /\ ret = Value("int", 50)

----------------------------------------------------------------------------
(* C2: in every method, a line starting with ERROR read by __readline ends *)
(* the call at once: the call has raised build_exception of that line, has *)
(* no return value, and that read is the last call made on the connection. *)

C2_ErrorFrameEndsExchange ==
    \A i \in TraceCalls("readline") :
        startswith(trace[i].data, ERROR_PREFIX)
        => /\ i = Len(trace)
           /\ pc = "done"
           /\ err = build_exception(trace[i].data)
           /\ ret = NoValue

C2_Witness ==
    /\ op = "delete_file" /\ pc = "done"
    /\ Len(resps) = 1
    /\ LastCall.data = ERROR_3
    /\ err = Raised("FileNotFoundError", "File not found", <<>>)

----------------------------------------------------------------------------
(* C3: __read_response(P) rejects, with a protocol error, the first data   *)
(* line (neither `+evn` nor ERROR) it reads that does not start with P.    *)

ProtocolErrorTypes == {"IOError", "ValueError", "FileNotFoundError", "Exception"}

C3_UnexpectedDataRejected ==
    (/\ op \in ResponseMethods /\ resps = <<>> /\ trace # <<>>
     /\ LastCall.call = "readline"
     /\ ~startswith(LastCall.data, EVN_PREFIX)
     /\ ~startswith(LastCall.data, ERROR_PREFIX)
     /\ ~startswith(strip(LastCall.data), AwaitedPrefix))
    => pc = "done" /\ err.type \in ProtocolErrorTypes

----------------------------------------------------------------------------
(* C4: against the device that stores uploaded files, read_file of a file  *)
(* returns, byte for byte, the data of the last upload_file that returned. *)

C4_RoundTrip ==
    (op = "read_file" /\ pc = "done" /\ uploaded # NoValue)
    => err = NoError /\ ret = uploaded

C4_Witness ==
    /\ op = "read_file" /\ pc = "done"
    /\ uploaded = Value("bytes", <<"x", "y", CR, LF, "O", "K", CR, LF, "z", LF, CR>>)
    /\ ret = uploaded

----------------------------------------------------------------------------
(* C5: when the device answers AT+GF=<name> with any run of event lines,   *)
(* the header +GF:<name>,<N>, one line break, N payload bytes and the      *)
(* terminator, read_file returns exactly the N payload bytes.              *)

C5_DownloadFraming ==
    \A k \in 0..MaxFrames, p \in Payloads :
        (/\ op = "read_file" /\ pc = "done"
         /\ startswith(rx, Events(k) \o GFHeader(args.filename, Len(p)) \o CRLF
                           \o p \o TERMINATOR))
        => err = NoError /\ ret = Value("bytes", p)

C5_Witness ==
    /\ op = "read_file" /\ pc = "done"
    /\ rx = EVN \o GFFrame(A_PNG, <<"x", "y", CR, LF, "O", "K", CR, LF, "z", LF, CR>>,
                           TERMINATOR)
    /\ ret = Value("bytes", <<"x", "y", CR, LF, "O", "K", CR, LF, "z", LF, CR>>)
    /\ inq = <<>>

----------------------------------------------------------------------------
(* C6: in read_file and upload_file, when the 6 bytes at the terminator    *)
(* position are not CR LF O K CR LF, the call raises the malformed         *)
(* response error (IOError) and returns nothing.                           *)

C6_TerminatorMismatchIsMalformed ==
    (/\ op \in {"read_file", "upload_file"} /\ pc = "done" /\ trace # <<>>
     /\ LastCall.call = "read"
     /\ slice_from(LastCall.data, -6) # TERMINATOR)
    => err.type = "IOError" /\ ret = NoValue

----------------------------------------------------------------------------
(* C7: in read_file, a +GF: header without a comma raises the malformed    *)
(* response error before any conn.read has been made.                      *)

C7_HeaderWithoutComma ==
    (op = "read_file" /\ resps # <<>> /\ ~contains(resps[1], ","))
    => /\ pc = "done"
       /\ err = Raised("IOError", "Malformed response to command AT+GF", resps[1])
       /\ ret = NoValue
       /\ TraceCalls("read") = {}

C7_Witness ==
    /\ op = "read_file" /\ pc = "done"
    /\ rx = EVN \o GF_NO_COMMA
    /\ err.type = "IOError"
    /\ Len(trace) = 3

----------------------------------------------------------------------------
(* C8: in upload_file, the payload is written only after the readiness     *)
(* acknowledgment has been read, and an event line is never taken for it:  *)
(* a line that is not an event line has been read before the payload write.*)

C8_PayloadAfterAcknowledgment ==
    op = "upload_file"
    => \A i \in TraceCalls("write") :
          i > 1 => \E j \in 1..(i - 1) :
                      /\ trace[j].call = "readline"
                      /\ ~startswith(trace[j].data, EVN_PREFIX)

----------------------------------------------------------------------------
(* C9: set_display_brightness(b) with b < 1 or b > 100 raises ValueError   *)
(* with no call made on the connection: nothing written, nothing read.     *)

C9_BrightnessRejectedLocally ==
    (op = "set_display_brightness"
     /\ (args.brightness < 1 \/ args.brightness > 100))
    => /\ pc = "done"
       /\ err = Raised("ValueError", "Brightness must be between 1 and 100", <<>>)
       /\ ret = NoValue
       /\ trace = <<>>
       /\ inq = rx

C9_Witness ==
    /\ op = "set_display_brightness" /\ pc = "done"
    /\ args.brightness = 101
    /\ err.type = "ValueError"
    /\ inq = EVN

----------------------------------------------------------------------------
(* C10: for a reply of entry lines and event lines in any order ended by   *)
(* OK, list_pictures and list_files return the entries in arrival order    *)
(* (pictures of type file), nothing from an event line, the empty list     *)
(* when there is no entry, and read no line after the first OK.            *)

A_PNG_10 == FileEntry(A_PNG, 10, "file")

ExpectedEntry(line) ==
    CASE line = PL_A -> A_PNG_10
      [] line = PL_B -> FileEntry(<<"b", ".", "g", "i", "f">>, 2048, "file")
      [] line = FL_A -> A_PNG_10
      [] line = FL_D -> FileEntry(<<"d">>, 0, "dir")

EntryLines == IF op = "list_pictures" THEN {PL_A, PL_B} ELSE {FL_A, FL_D}

RECURSIVE ExpectedEntries(_)
ExpectedEntries(ls) ==
    IF ls = <<>> THEN <<>>
    ELSE IF Head(ls) = EVN THEN ExpectedEntries(Tail(ls))
    ELSE <<ExpectedEntry(Head(ls))>> \o ExpectedEntries(Tail(ls))

C10_Listing ==
    (op \in {"list_pictures", "list_files"} /\ pc = "done")
    => LET ls == Lines(rx)
       IN  \A n \in 1..Len(ls) :
              (/\ ls[n] = OK_LINE
               /\ \A i \in 1..(n - 1) : ls[i] \in EntryLines \cup {EVN})
              => /\ err = NoError
                 /\ ret = Value("list", ExpectedEntries(SubSeq(ls, 1, n - 1)))
                 /\ Cardinality(TraceCalls("readline")) = n
                 /\ LastCall.data = OK_LINE

C10_Witness ==
    /\ op = "list_files" /\ pc = "done"
    /\ rx = FL_A \o EVN \o FL_D \o OK_LINE \o EVN
    /\ ret = Value("list", <<A_PNG_10, FileEntry(<<"d">>, 0, "dir")>>)
    /\ inq = EVN

----------------------------------------------------------------------------
(* C11: build_exception maps the text ERROR:<c>, with or without the line  *)
(* break that follows it on the wire, to Unknown error (c = 0), Invalid    *)
(* command (1), Invalid argument (2), File not found (3), Invalid size (4),*)
(* and every other text (another code, more or fewer fields, no colon,     *)
(* another prefix) to the unexpected-response error carrying that text.    *)

ErrorKind(code) ==
    CASE code = "0" -> Raised("Exception", "Unknown error", <<>>)
      [] code = "1" -> Raised("ValueError", "Invalid command", <<>>)
      [] code = "2" -> Raised("ValueError", "Invalid argument", <<>>)
      [] code = "3" -> Raised("FileNotFoundError", "File not found", <<>>)
      [] code = "4" -> Raised("ValueError", "Invalid size", <<>>)

KnownCodes == {"0", "1", "2", "3", "4"}

----------------------------------------------------------------------------
(* C12: build_exception is total: for every byte string, text or not, it   *)
(* yields one of the typed errors of the table and raises nothing itself.  *)

C12_MapperTotal ==
    (op = "build_exception" /\ pc = "done")
    => err.type \in {"Exception", "ValueError", "FileNotFoundError"}

----------------------------------------------------------------------------
(* C13: when a read on the connection ends short (a line without its line  *)
(* feed, possibly empty, or fewer bytes than asked for), the call ends      *)
(* there with a transport failure: no further read, no return value, no    *)
(* other kind of exception.                                                *)

ShortRead(c) ==
    \/ c.call = "readline" /\ ~HasLine(c.data)
    \/ c.call = "read" /\ Len(c.data) < c.size

TransportErrorTypes == {"SerialException", "TimeoutError", "ConnectionError"}

C13_TransportFailureSurfaces ==
    \A i \in 1..Len(trace) :
        ShortRead(trace[i])
        => /\ i = Len(trace)
           /\ pc = "done"
           /\ ret = NoValue
           /\ err.type \in TransportErrorTypes

----------------------------------------------------------------------------
(* C14: the five identity fields are fetched once each, by Device.__init__ *)
(* (AT+GTSS, AT+GID, AT+GFV, AT+GMN, AT+GDN, in this order, and the fields *)
(* are what the answers carried); once the Device is constructed no method  *)
(* changes them or sends one of these queries again; and a property        *)
(* returns the cached field with no call made on the connection.           *)

RECURSIVE WrittenBy(_)
WrittenBy(t) ==
    IF t = <<>> THEN <<>>
    ELSE IF Head(t).call = "write" THEN <<Head(t).data>> \o WrittenBy(Tail(t))
    ELSE WrittenBy(Tail(t))

IdentityCommands ==
    << <<"A", "T", "+", "G", "T", "S", "S", CR, LF>>,
       <<"A", "T", "+", "G", "I", "D", CR, LF>>,
       <<"A", "T", "+", "G", "F", "V", CR, LF>>,
       <<"A", "T", "+", "G", "M", "N", CR, LF>>,
       <<"A", "T", "+", "G", "D", "N", CR, LF>> >>

Constructed == pc \notin InitPositions \cup {"new", "failed"} /\ op # "__init__"

C14_IdentityCached ==
    [][ /\ (op = "__init__" /\ pc # "done" /\ pc' = "done")
           => /\ WrittenBy(trace') = IdentityCommands
              /\ Len(resps') = 5
              /\ identity'.capacity = int(After(resps'[1], 5)).val
              /\ identity'.device_id = After(resps'[2], 4)
              /\ identity'.firmware_version = After(resps'[3], 4)
              /\ identity'.manufacturer = After(resps'[4], 4)
              /\ identity'.name = After(resps'[5], 4)
        /\ Constructed
           => /\ identity' = identity
              /\ \A i \in 1..Len(trace') :
                    \A j \in 1..5 : trace'[i].data # IdentityCommands[j]
        /\ (pc = "idle" /\ op' \in DOMAIN identity)
           => /\ pc' = "done" /\ err' = NoError
              /\ ret'.val = identity[op']
              /\ trace' = <<>> /\ inq' = inq /\ outq' = outq
      ]_vars

C14_Witness ==
    /\ op = "name" /\ pc = "done"
    /\ ret = Value("str", <<"u">>)
    /\ identity = Identity(4096, <<"1">>, <<"2", ".", "0">>, <<"m">>, <<"u">>)
    /\ nframes = MaxFrames

----------------------------------------------------------------------------
(* C15: in every call that has written its command line, also one that     *)
(* follows a call ended by a protocol error, the bytes the earlier calls   *)
(* left unread in the connection's input hold nothing of an earlier        *)
(* response: they are whole event lines, or nothing.                       *)

OnlyEvents(q) ==
    /\ q = <<>> \/ q[Len(q)] = LF
    /\ \A i \in 1..Len(Lines(q)) : startswith(Lines(q)[i], EVN_PREFIX)

C15_NoResponseLeftUnread ==
    (trace # <<>> /\ trace[1].call = "write") => OnlyEvents(stale)

----------------------------------------------------------------------------
(* C16: after a call that ended with a protocol error, the next call, when *)
(* the device answers its command with the complete and correct reply,     *)
(* returns what that reply carries.                                        *)

OwnReply == After(rx, Len(stale))

C16_UsableAfterProtocolError ==
    (failed /\ pc = "done" /\ trace # <<>>)
    => /\ (op = "list_pictures" /\ OwnReply = PL_A \o OK_LINE)
          => err = NoError /\ ret = Value("list", <<A_PNG_10>>)
       /\ (op = "get_display_brightness" /\ OwnReply = DB_LINE)
          => err = NoError /\ ret = Value("int", 50)
       /\ (op = "get_active_picture" /\ OwnReply = SP_LINE)
          => err = NoError /\ ret = Value("str", A_PNG)
       /\ (op = "read_file" /\ OwnReply = GFFrame(A_PNG, <<"x">>, TERMINATOR))
          => err = NoError /\ ret = Value("bytes", <<"x">>)
       /\ (op = "set_active_picture" /\ OwnReply = OK_LINE)
          => err = NoError /\ ret = None

----------------------------------------------------------------------------
(* C17: in every method that begins with __read_response, once the device  *)
(* has delivered a run of zero or more `+evn` lines followed by one more   *)
(* complete line that is not an event, the first __read_response of the    *)
(* call eventually returns a line or raises, whatever that line starts     *)
(* with.                                                                   *)

NonEventDelivered ==
    LeadingEvents(Lines(rx)) < Len(Lines(rx))

C17_ReadResponseReturns ==
    (op \in ResponseMethods /\ Calling /\ resps = <<>> /\ NonEventDelivered)
    ~> (resps # <<>> \/ pc = "done")

----------------------------------------------------------------------------
(* C18: delete_file(name) first writes AT+DF=<name> CR LF, and it has      *)
(* returned without error only when, among the lines it has read, a line   *)
(* starting with +DF: comes before the last one, which starts with OK; a   *)
(* call that has read OK lines but no +DF: line has not returned.          *)

ReadLines(prefix) ==
    {i \in TraceCalls("readline") : startswith(strip(trace[i].data), prefix)}

C18_DeleteFileOrder ==
    (op = "delete_file" /\ trace # <<>>)
    => /\ trace[1] = ConnCall("write", Len(AT_DF \o args.filename \o CRLF),
                              AT_DF \o args.filename \o CRLF)
       /\ (pc = "done" /\ err = NoError)
          => /\ ret = None
             /\ Len(trace) \in ReadLines(OK_PREFIX)
             /\ \E i \in ReadLines(DF_PREFIX) : i < Len(trace)
       /\ ReadLines(DF_PREFIX) = {} => ~(pc = "done" /\ err = NoError)

C18_Witness ==
    /\ op = "delete_file" /\ pc = "done" /\ err = NoError
    /\ rx = OK_LINE \o DF_LINE \o OK_LINE
    /\ Len(trace) = 4

----------------------------------------------------------------------------
(* C19: in upload_file, when the line read after the AT+UF command starts  *)
(* with ERROR, the call has ended raising what build_exception makes of    *)
(* that line, and the command is the only write it has made: no payload    *)
(* byte has reached the connection.                                        *)

C19_ErrorBeforePayload ==
    (/\ op = "upload_file" /\ Len(trace) >= 2
     /\ trace[2].call = "readline"
     /\ startswith(trace[2].data, ERROR_PREFIX))
    => /\ pc = "done"
       /\ err = build_exception(trace[2].data) /\ err # NoError
       /\ ret = NoValue
       /\ Len(trace) = 2
       /\ TraceCalls("write") = {1}
       /\ trace[1].data =
             AT_UF \o args.filename \o <<",">> \o format_d(Len(args.data)) \o CRLF

C19_Witness ==
    /\ op = "upload_file" /\ pc = "done"
    /\ args.data # <<>>
    /\ Len(trace) = 2 /\ trace[2].data = ERROR_3
    /\ err = Raised("FileNotFoundError", "File not found", <<>>)

----------------------------------------------------------------------------
(* C20: every method that uses the connection begins with one write, of    *)
(* its command followed by CR LF and holding no other line break, before   *)
(* any read; it makes no other write, except upload_file, whose only other *)
(* write is the payload, once, after the line read in answer to the        *)
(* command.                                                                *)

CommandOf ==
    CASE op = "list_pictures" -> AT_GPL
      [] op = "list_files" -> AT_GFL
      [] op = "read_file" -> AT_GF \o args.filename
      [] op = "upload_file" ->
            AT_UF \o args.filename \o <<",">> \o format_d(Len(args.data))
      [] op = "delete_file" -> AT_DF \o args.filename
      [] op = "set_active_picture" -> AT_SP \o args.filename
      [] op = "get_active_picture" -> <<"A", "T", "+", "S", "P", "?">>
      [] op = "get_free_storage" -> <<"A", "T", "+", "G", "F", "S", "S">>
      [] op = "get_display_brightness" -> <<"A", "T", "+", "D", "B", "?">>
      [] op = "set_display_brightness" -> AT_DB \o format_d(args.brightness)
      [] op = "get_wifi_config" -> <<"A", "T", "+", "W", "C", "?">>
      [] op = "set_wifi_config" ->
            AT_WC \o args.wifi_config.ssid \o <<",">> \o args.wifi_config.password
      [] op = "reset_wifi_config" -> AT_FRWCF
      [] OTHER -> <<>>

C20_OneCommandPerCall ==
    trace # <<>>
    => /\ trace[1] = ConnCall("write", Len(CommandOf) + 2, CommandOf \o CRLF)
       /\ Lines(trace[1].data) = <<trace[1].data>>
       /\ IF op = "upload_file"
          THEN /\ TraceCalls("write") \subseteq {1, 3}
               /\ 3 \in TraceCalls("write")
                  => trace[2].call = "readline" /\ trace[3].data = args.data
               /\ (pc = "done" /\ err = NoError) => 3 \in TraceCalls("write")
          ELSE TraceCalls("write") = {1}

C20_Witness ==
    /\ op = "upload_file" /\ pc = "done" /\ err = NoError
    /\ args.data = <<CR, LF, "x">>
    /\ Len(trace) = 4
    /\ TraceCalls("write") = {1, 3}

=============================================================================
